---- MODULE Spec2Model ----
(***************************************************************************)
(* Model of the exams HTTP surface of Learning-Agent:                      *)
(*   backend/src/modules/exams/infrastructure/http/exams.controller.ts     *)
(* and of the exam repository port it rests on.  The command handlers and  *)
(* use cases the controller calls are not part of the sources at hand;     *)
(* they are modelled from the written specification and marked as such.    *)
(* Further sections model the ExamForm wizard, the exam-create page        *)
(* (client/src/pages/exams/ExamCreatePage.tsx) and the migration           *)
(* 20250911201418_restructure_exams_tables.                                *)
(***************************************************************************)
EXTENDS Integers, Sequences, FiniteSets, TLC

VARIABLES
  exams,      \* the stored exams
  questions,  \* the stored questions of all exams
  last,       \* the last request served, its response and the calls it made
  inp,        \* the body and collaborator answer of create / generate requests
  courses,    \* the rows of the Course table
  savedExams, \* the rows of the SavedExam table
  body,       \* the body of quick-save requests
  hdr,        \* the x-correlation-id header of the requests
  att,        \* a value given to validateAttempts and the message it returned
  step,       \* ExamForm: the step shown
  values,     \* ExamForm: the field values
  errors,     \* ExamForm: the field errors of the last validate()
  sending,    \* ExamForm: the sending flag
  inflight,   \* ExamForm: createExam calls that have not settled
  mounted,    \* ExamForm: the component is mounted
  wzLast,     \* ExamForm: the last event handled and the calls it made
  pending,    \* add-question requests whose handler has read and not written
  done,       \* add-question requests served, with what their handler had read
  page,       \* ExamsCreatePage: the cells of its useState hooks
  form,       \* ExamsCreatePage: the form snapshot and the stored draft
  aiCalls,    \* ExamsCreatePage: generateQuestions calls that have not settled
  issued,     \* ExamsCreatePage: generateQuestions calls made so far
  now,        \* ExamsCreatePage: the value Date.now() returns
  pgLast,     \* ExamsCreatePage: the last event handled and what it sent
  db,         \* the Exam and SavedExam tables the migration runs on
  mig         \* the statement of the migration that runs next

qsVars == <<courses, savedExams, body>>
wzVars == <<att, step, values, errors, sending, inflight, mounted, wzLast>>
ccVars == <<pending, done>>
pgVars == <<page, form, aiCalls, issued, now, pgLast>>
mgVars == <<db, mig>>
vars == <<exams, questions, last, inp, qsVars, hdr, wzVars, ccVars, pgVars,
          mgVars>>
backendVars ==
  <<exams, questions, last, inp, qsVars, hdr, ccVars, pgVars, mgVars>>

(* ------------------------------ bounds -------------------------------- *)
MaxTotal == 2       \* largest totalQuestions of a request
MaxCount == 1       \* largest count of one kind in a distribution
MaxFlat == 3        \* longest sequence the generation collaborator returns
MaxExams == 2       \* exams the store holds at most
MaxQuestions == 3   \* questions the store holds at most

(* ----------------------------- vocabulary ----------------------------- *)
Kinds == {"multiple_choice", "true_false", "open_analysis", "open_exercise"}
QTypes == Kinds \cup {"other"}
Teachers == {"tA", "tB"}
Courses == {"c1", "c2"}
NoUser == "no-user"          \* req.user is undefined
EmptySub == ""               \* req.user.sub is the empty string
Callers == Teachers \cup {NoUser, EmptySub}
NoTeacher == "no-teacher"    \* an exam stored without an owner
NoClass == "no-class"
Texts == {"t1", "t2"}        \* question payloads of add and update
ReqExamIds == 1..(MaxExams + 1)
ReqQuestionIds == 1..(MaxQuestions + 1)

Propagated == 0   \* the handler threw and the controller has no catch

ACCESO == "Acceso no autorizado"
NOEXAM == "Examen no encontrado"
TOTAL_MSG == "totalQuestions debe ser > 0."
SUM_MSG == "La suma de distribution debe ser igual a totalQuestions."

(* A request body of create-exam / generate-questions: a function whose     *)
(* domain holds "totalQuestions" and, when a distribution is sent,          *)
(* "distribution"; a distribution maps the kinds it defines to counts.      *)
Distributions == UNION {[D -> 0..MaxCount] : D \in SUBSET Kinds}
Dtos ==
  {[totalQuestions |-> t] : t \in (-1)..MaxTotal}
  \cup {[totalQuestions |-> t, distribution |-> d] :
          t \in (-1)..MaxTotal, d \in Distributions}

NoHeader == "no-header"       \* req.header(...) is undefined
Headers == {NoHeader, "cid-1"}
RandomUUID == "uuid"          \* the value randomUUID() returns
NoCid == "no-envelope"        \* no response helper was called

(* The response and call record of the last request served. *)
NoGroups == [k \in Kinds |-> << >>]
Blank ==
  [op |-> "none", user |-> NoUser, examId |-> 0, courseId |-> "",
   questionId |-> 0, position |-> 0, dto |-> << >>, flat |-> << >>,
   status |-> 0, error |-> "", calls |-> {}, dataExams |-> {},
   created |-> {}, grouped |-> NoGroups, normalized |-> << >>,
   header |-> NoHeader, cid |-> NoCid, detail |-> {}, thrown |-> {}]

\* const cid = (req) => req.header('x-correlation-id') ?? randomUUID()
cid(h) == IF h = NoHeader THEN RandomUUID ELSE h

\* What every response helper of the controller is given: the record of the
\* request with the correlation id computed from its header.
Envelope == [Blank EXCEPT !.header = hdr, !.cid = cid(hdr)]

(* --------------------------- pure functions --------------------------- *)
RECURSIVE SeqFilter(_, _)
\* Array.prototype.filter with the predicate q.type === t
SeqFilter(s, t) ==
  IF s = << >> THEN << >>
  ELSE IF Head(s).type = t THEN <<Head(s)>> \o SeqFilter(Tail(s), t)
       ELSE SeqFilter(Tail(s), t)

\* d.k ?? 0
Count(d, k) == IF k \in DOMAIN d THEN d[k] ELSE 0

sumDistribution_dropsLast(dto) ==
  IF "distribution" \notin DOMAIN dto THEN 0
  ELSE Count(dto.distribution, "multiple_choice")
       + Count(dto.distribution, "true_false")
       + Count(dto.distribution, "open_analysis")

sumDistribution(dto) ==
  IF "distribution" \notin DOMAIN dto THEN 0
  ELSE Count(dto.distribution, "multiple_choice")
       + Count(dto.distribution, "true_false")
       + Count(dto.distribution, "open_analysis")
       + Count(dto.distribution, "open_exercise")

(* ------------------- create-exam / generate-questions ------------------ *)
createCheck_strictlyNegative(dto) ==
  IF dto.totalQuestions < 0 THEN TOTAL_MSG
  ELSE IF sumDistribution(dto) # dto.totalQuestions THEN SUM_MSG
  ELSE ""

\* ExamsController.create, the two validations; "" when both pass
createCheck(dto) ==
  IF dto.totalQuestions <= 0 THEN TOTAL_MSG
  ELSE IF sumDistribution(dto) # dto.totalQuestions THEN SUM_MSG
  ELSE ""

\* ExamsController.generate, the two validations; "" when both pass
generateCheck(dto) ==
  IF dto.totalQuestions <= 0 THEN TOTAL_MSG
  ELSE IF sumDistribution(dto) # dto.totalQuestions THEN SUM_MSG
  ELSE ""

grouped_wrongKind(flat) ==
  [multiple_choice |-> SeqFilter(flat, "multiple_choice"),
   true_false |-> SeqFilter(flat, "true_false"),
   open_analysis |-> SeqFilter(flat, "open_analysis"),
   open_exercise |-> SeqFilter(flat, "open_analysis")]

\* ExamsController.generate, the regrouping of the collaborator's answer
grouped(flat) ==
  [multiple_choice |-> SeqFilter(flat, "multiple_choice"),
   true_false |-> SeqFilter(flat, "true_false"),
   open_analysis |-> SeqFilter(flat, "open_analysis"),
   open_exercise |-> SeqFilter(flat, "open_exercise")]

\* What the generation collaborator may answer: any sequence of questions,
\* each tagged with a type; the id of a question is its place in the answer.
Flats ==
  UNION {{[i \in 1..n |-> [id |-> i, type |-> f[i]]] : f \in [1..n -> QTypes]} :
         n \in 0..MaxFlat}

\* CreateExamCommandHandler.execute: persists a new exam with status Saved
\* under a generated identity.  CreateExamCommand carries neither a teacher
\* nor a class.
CreateExamCommandHandler(es) ==
  [id |-> Cardinality(es) + 1, teacherId |-> NoTeacher, classId |-> NoClass,
   status |-> "Guardado"]

\* ExamsController.create
create ==
  LET dto == inp.dto
      err == createCheck(dto) IN
  IF err # ""
  THEN /\ last' = [Envelope EXCEPT !.op = "create", !.dto = dto,
                                !.status = 400, !.error = err]
       /\ UNCHANGED <<exams, questions, inp>>
       /\ UNCHANGED <<qsVars, hdr, wzVars, ccVars, pgVars,
                    mgVars>>
  ELSE /\ Cardinality(exams) < MaxExams
       /\ LET exam == CreateExamCommandHandler(exams) IN
          /\ exams' = exams \cup {exam}
          /\ last' = [Envelope EXCEPT !.op = "create", !.dto = dto,
                                   !.status = 200,
                                   !.calls = {"createExamHandler"},
                                   !.dataExams = {exam}]
       /\ UNCHANGED <<questions, inp>>
       /\ UNCHANGED <<qsVars, hdr, wzVars, ccVars, pgVars,
                    mgVars>>

generate_persists ==
  LET dto == inp.dto
      flat == inp.flat
      err == generateCheck(dto) IN
  IF err # ""
  THEN /\ last' = [Envelope EXCEPT !.op = "generate", !.dto = dto,
                                !.status = 400, !.error = err]
       /\ UNCHANGED <<exams, questions, inp>>
       /\ UNCHANGED <<qsVars, hdr, wzVars, ccVars, pgVars,
                    mgVars>>
  ELSE /\ last' = [Envelope EXCEPT !.op = "generate", !.dto = dto,
                                !.status = 200,
                                !.calls = {"generateQuestionsHandler"},
                                !.flat = flat, !.grouped = grouped(flat)]
       /\ exams' = IF Cardinality(exams) < MaxExams
                   THEN exams \cup {CreateExamCommandHandler(exams)}
                   ELSE exams
       /\ UNCHANGED <<questions, inp>>
       /\ UNCHANGED <<qsVars, hdr, wzVars, ccVars, pgVars,
                    mgVars>>

\* ExamsController.generate; inp.flat is what the collaborator answers
generate ==
  LET dto == inp.dto
      flat == inp.flat
      err == generateCheck(dto) IN
  IF err # ""
  THEN /\ last' = [Envelope EXCEPT !.op = "generate", !.dto = dto,
                                !.status = 400, !.error = err]
       /\ UNCHANGED <<exams, questions, inp>>
       /\ UNCHANGED <<qsVars, hdr, wzVars, ccVars, pgVars,
                    mgVars>>
  ELSE /\ last' = [Envelope EXCEPT !.op = "generate", !.dto = dto,
                                !.status = 200,
                                !.calls = {"generateQuestionsHandler"},
                                !.flat = flat, !.grouped = grouped(flat)]
       /\ UNCHANGED <<exams, questions, inp>>
       /\ UNCHANGED <<qsVars, hdr, wzVars, ccVars, pgVars,
                    mgVars>>

(* --------------------------- the exam store --------------------------- *)
\* ExamRepositoryPort.create: the exam is stored for its teacher and class
repoCreateExam(es, t, c) ==
  [id |-> Cardinality(es) + 1, teacherId |-> t, classId |-> c,
   status |-> "Guardado"]

\* ExamRepositoryPort.findByIdOwned: the exam, or null (the empty set)
findByIdOwned(es, id, teacherId) ==
  {e \in es : e.id = id /\ e.teacherId = teacherId}

\* ExamRepositoryPort.listByClassOwned
listByClassOwned(es, classId, teacherId) ==
  {e \in es : e.classId = classId /\ e.teacherId = teacherId}

\* GetExamByIdUseCase.execute: the owned exam; access denied when the exam
\* exists but belongs to another teacher; not found when no exam has the id.
\* A thrown message is the set of phrases it contains.
GetExamByIdUseCase(es, examId, teacherId) ==
  LET found == findByIdOwned(es, examId, teacherId) IN
  IF found # {} THEN [ok |-> TRUE, data |-> found, msg |-> {}]
  ELSE IF \E e \in es : e.id = examId
       THEN [ok |-> FALSE, data |-> {}, msg |-> {ACCESO}]
       ELSE [ok |-> FALSE, data |-> {}, msg |-> {NOEXAM}]

\* ListCourseExamsUseCase.execute
ListCourseExamsUseCase(es, courseId, teacherId) ==
  listByClassOwned(es, courseId, teacherId)

\* !user?.sub
NoIdentity(user) == user = NoUser \/ user = EmptySub

classify_forbiddenAsNotFound(msg) ==
  IF ACCESO \in msg THEN [status |-> 404, error |-> NOEXAM]
  ELSE IF NOEXAM \in msg THEN [status |-> 404, error |-> NOEXAM]
  ELSE [status |-> 500, error |-> "Error interno"]

classify_noNotFound(msg) ==
  IF ACCESO \in msg THEN [status |-> 403, error |-> ACCESO]
  ELSE [status |-> 500, error |-> "Error interno"]

classify_notFoundFirst(msg) ==
  IF NOEXAM \in msg THEN [status |-> 404, error |-> NOEXAM]
  ELSE IF ACCESO \in msg THEN [status |-> 403, error |-> ACCESO]
  ELSE [status |-> 500, error |-> "Error interno"]

\* ExamsController.getExamById, the catch block: msg.includes(...)
classify(msg) ==
  IF ACCESO \in msg THEN [status |-> 403, error |-> ACCESO]
  ELSE IF NOEXAM \in msg THEN [status |-> 404, error |-> NOEXAM]
  ELSE [status |-> 500, error |-> "Error interno"]

getExamByIdResponse_noGuard(es, examId, user) ==
  LET r == GetExamByIdUseCase(es, examId, user) IN
  IF r.ok
  THEN [status |-> 200, error |-> "", calls |-> {"getByIdUseCase"},
        dataExams |-> r.data]
  ELSE [status |-> classify(r.msg).status, error |-> classify(r.msg).error,
        calls |-> {"getByIdUseCase"}, dataExams |-> {}]

\* ExamsController.getExamById
getExamByIdResponse(es, examId, user) ==
  IF NoIdentity(user)
  THEN [status |-> 403, error |-> ACCESO, calls |-> {}, dataExams |-> {}]
  ELSE LET r == GetExamByIdUseCase(es, examId, user) IN
       IF r.ok
       THEN [status |-> 200, error |-> "", calls |-> {"getByIdUseCase"},
             dataExams |-> r.data]
       ELSE [status |-> classify(r.msg).status,
             error |-> classify(r.msg).error,
             calls |-> {"getByIdUseCase"}, dataExams |-> {}]

byCourseResponse_unscoped(es, courseId, user) ==
  IF NoIdentity(user)
  THEN [status |-> 403, error |-> ACCESO, calls |-> {}, dataExams |-> {}]
  ELSE [status |-> 200, error |-> "", calls |-> {"listCourseExams"},
        dataExams |-> {e \in es : e.classId = courseId}]

\* ExamsController.byCourse
byCourseResponse(es, courseId, user) ==
  IF NoIdentity(user)
  THEN [status |-> 403, error |-> ACCESO, calls |-> {}, dataExams |-> {}]
  ELSE [status |-> 200, error |-> "", calls |-> {"listCourseExams"},
        dataExams |-> ListCourseExamsUseCase(es, courseId, user)]

repoCreate ==
  \E t \in Teachers, c \in Courses :
    /\ Cardinality(exams) < MaxExams
    /\ exams' = exams \cup {repoCreateExam(exams, t, c)}
    /\ last' = [Blank EXCEPT !.op = "repoCreate"]
    /\ UNCHANGED <<questions, inp>>
    /\ UNCHANGED <<qsVars, hdr, wzVars, ccVars, pgVars,
                    mgVars>>

getExamById ==
  \E user \in Callers, examId \in ReqExamIds :
    LET r == getExamByIdResponse(exams, examId, user) IN
    /\ last' = [Envelope EXCEPT !.op = "getExamById", !.user = user,
                             !.examId = examId, !.status = r.status,
                             !.error = r.error, !.calls = r.calls,
                             !.dataExams = r.dataExams]
    /\ UNCHANGED <<exams, questions, inp>>
    /\ UNCHANGED <<qsVars, hdr, wzVars, ccVars, pgVars,
                    mgVars>>

byCourse ==
  \E user \in Callers, courseId \in Courses :
    LET r == byCourseResponse(exams, courseId, user) IN
    /\ last' = [Envelope EXCEPT !.op = "byCourse", !.user = user,
                             !.courseId = courseId, !.status = r.status,
                             !.error = r.error, !.calls = r.calls,
                             !.dataExams = r.dataExams]
    /\ UNCHANGED <<exams, questions, inp>>
    /\ UNCHANGED <<qsVars, hdr, wzVars, ccVars, pgVars,
                    mgVars>>

(* ---------------------- errors thrown by the queries ------------------- *)
OTRO == "otro error"
DEFAULT_GET == "Error obteniendo examen"
DEFAULT_LIST == "Error listando examenes"

\* What a use case throws: a value without message, or an error whose
\* message is the set of phrases it contains (the empty set is '').
Thrown ==
  {<< >>} \cup {[message |-> m] : m \in SUBSET {ACCESO, NOEXAM, OTRO}}

\* ExamsController.getExamById when the use case throws e
getExamByIdCatch(user, e) ==
  IF NoIdentity(user)
  THEN [status |-> 403, error |-> ACCESO, calls |-> {}, detail |-> {},
        thrown |-> {}]
  ELSE LET msg == IF "message" \in DOMAIN e THEN e.message ELSE {}
           c == classify(msg)
       IN [status |-> c.status, error |-> c.error,
           calls |-> {"getByIdUseCase"}, thrown |-> {e},
           detail |-> IF c.status = 500 /\ msg = {} THEN {DEFAULT_GET}
                      ELSE msg]

\* ExamsController.byCourse when the use case throws e
byCourseCatch(user, e) ==
  IF NoIdentity(user)
  THEN [status |-> 403, error |-> ACCESO, calls |-> {}, detail |-> {},
        thrown |-> {}]
  ELSE [status |-> 500, error |-> "Error interno",
        calls |-> {"listCourseExams"}, thrown |-> {e},
        detail |-> IF "message" \in DOMAIN e THEN e.message
                   ELSE {DEFAULT_LIST}]

getExamByIdThrows ==
  \E user \in Callers, examId \in ReqExamIds, e \in Thrown :
    LET r == getExamByIdCatch(user, e) IN
    /\ last' = [Envelope EXCEPT !.op = "getExamById", !.user = user,
                                !.examId = examId, !.status = r.status,
                                !.error = r.error, !.calls = r.calls,
                                !.detail = r.detail, !.thrown = r.thrown]
    /\ UNCHANGED <<exams, questions, inp>>
    /\ UNCHANGED <<qsVars, hdr, wzVars, ccVars, pgVars,
                    mgVars>>

byCourseThrows ==
  \E user \in Callers, courseId \in Courses, e \in Thrown :
    LET r == byCourseCatch(user, e) IN
    /\ last' = [Envelope EXCEPT !.op = "byCourse", !.user = user,
                                !.courseId = courseId, !.status = r.status,
                                !.error = r.error, !.calls = r.calls,
                                !.detail = r.detail, !.thrown = r.thrown]
    /\ UNCHANGED <<exams, questions, inp>>
    /\ UNCHANGED <<qsVars, hdr, wzVars, ccVars, pgVars,
                    mgVars>>

(* ------------------------ add / update question ----------------------- *)
QuestionsOf(qs, examId) == {q \in qs : q.examId = examId}

AddExamQuestionCommand_positionDropped(examId, position, payload) ==
  [examId |-> examId, position |-> 0, question |-> payload]

\* new AddExamQuestionCommand(examId, dto.position, {...}): the command
\* carries the exam, the position and the question payload, and nothing
\* about the caller.  The kind-specific fields travel as one payload value.
AddExamQuestionCommand(examId, position, payload) ==
  [examId |-> examId, position |-> position, question |-> payload]

\* new UpdateExamQuestionCommand(questionId, dto)
UpdateExamQuestionCommand(questionId, dto) ==
  [questionId |-> questionId, patch |-> dto]

\* AddExamQuestionCommandHandler.execute: inserts the question at the
\* position and shifts the order of the questions from there on by one.
AddExamQuestionCommandHandler(cmd, es, qs) ==
  IF ~ \E e \in es : e.id = cmd.examId
  THEN [ok |-> FALSE, questions |-> qs, result |-> {}]
  ELSE LET new == [id |-> Cardinality(qs) + 1, examId |-> cmd.examId,
                   order |-> cmd.position, text |-> cmd.question.text]
           shifted == {IF q.examId = cmd.examId /\ q.order >= cmd.position
                       THEN [q EXCEPT !.order = @ + 1] ELSE q : q \in qs}
       IN [ok |-> TRUE, questions |-> shifted \cup {new}, result |-> {new}]

\* UpdateExamQuestionCommandHandler.execute: patches the question in place;
\* its order and its exam stay as they are.
UpdateExamQuestionCommandHandler(cmd, qs) ==
  IF ~ \E q \in qs : q.id = cmd.questionId
  THEN [ok |-> FALSE, questions |-> qs, result |-> {}]
  ELSE LET old == CHOOSE q \in qs : q.id = cmd.questionId
           new == [old EXCEPT !.text = cmd.patch.text]
       IN [ok |-> TRUE, questions |-> (qs \ {old}) \cup {new},
           result |-> {new}]

\* ExamsController.addQuestion; req.user is in the request and is not read
addQuestion ==
  \E user \in Teachers, examId \in ReqExamIds, text \in Texts :
  \E position \in 0..Cardinality(QuestionsOf(questions, examId)) :
    LET cmd == AddExamQuestionCommand(examId, position, [text |-> text])
        r == AddExamQuestionCommandHandler(cmd, exams, questions)
    IN
    /\ Cardinality(questions) < MaxQuestions
    /\ questions' = r.questions
    /\ last' = [Envelope EXCEPT !.op = "addQuestion", !.user = user,
                             !.examId = examId, !.position = position,
                             !.status = IF r.ok THEN 200 ELSE Propagated,
                             !.cid = IF r.ok THEN cid(hdr) ELSE NoCid,
                             !.calls = {"addExamQuestionHandler"},
                             !.created = r.result]
    /\ UNCHANGED <<exams, inp>>
    /\ UNCHANGED <<qsVars, hdr, wzVars, ccVars, pgVars,
                    mgVars>>

\* ExamsController.updateQuestion; req.user is in the request and is not read
updateQuestion ==
  \E user \in Teachers, questionId \in ReqQuestionIds, text \in Texts :
    LET cmd == UpdateExamQuestionCommand(questionId, [text |-> text])
        r == UpdateExamQuestionCommandHandler(cmd, questions)
    IN
    /\ questions' = r.questions
    /\ last' = [Envelope EXCEPT !.op = "updateQuestion", !.user = user,
                             !.questionId = questionId,
                             !.examId = IF r.ok
                                        THEN (CHOOSE q \in r.result : TRUE).examId
                                        ELSE 0,
                             !.status = IF r.ok THEN 200 ELSE Propagated,
                             !.cid = IF r.ok THEN cid(hdr) ELSE NoCid,
                             !.calls = {"updateExamQuestionHandler"},
                             !.created = r.result]
    /\ UNCHANGED <<exams, inp>>
    /\ UNCHANGED <<qsVars, hdr, wzVars, ccVars, pgVars,
                    mgVars>>

(* -------------------- add-question requests in flight ------------------ *)
MaxPending == 2   \* add-question requests in flight at most

\* No add-question request is being served.
RaceIdle ==
  /\ pending = {}
  /\ done = {}

WriteAdd_rereads(qs, p) ==
  LET r == AddExamQuestionCommandHandler(p.cmd, {[id |-> p.cmd.examId]}, qs)
  IN [questions |-> r.questions, new |-> CHOOSE n \in r.result : TRUE]

\* What the write of the handler stores: the questions it had read from the
\* position on are renumbered one up, and the new question takes the position.
WriteAdd(qs, p) ==
  LET new == [id |-> Cardinality(qs) + 1, examId |-> p.cmd.examId,
              order |-> p.cmd.position, text |-> p.cmd.question.text]
      renumbered ==
        {IF \E r \in p.seen : r.id = q.id /\ r.order >= p.cmd.position
         THEN [q EXCEPT !.order =
                 (CHOOSE r \in p.seen : r.id = q.id).order + 1]
         ELSE q : q \in qs}
  IN [questions |-> renumbered \cup {new}, new |-> new]

\* ExamsController.addQuestion up to the first await inside the handler: the
\* command is built and the handler has read the questions of the exam.
\* Nothing keeps a second request from being served meanwhile.
addQuestionReads ==
  \E examId \in ReqExamIds, text \in Texts :
  \E position \in 0..Cardinality(QuestionsOf(questions, examId)) :
    LET cmd == AddExamQuestionCommand(examId, position, [text |-> text]) IN
    /\ Cardinality(pending) < MaxPending
    /\ Cardinality(questions) + Cardinality(pending) < MaxQuestions
    /\ IF \E e \in exams : e.id = examId
       THEN /\ pending' = pending \cup
                 {[cmd |-> cmd, seen |-> QuestionsOf(questions, examId)]}
            /\ last' = [Blank EXCEPT !.op = "addQuestionReads",
                                     !.examId = examId,
                                     !.position = position,
                                     !.calls = {"addExamQuestionHandler"}]
       ELSE /\ pending' = pending
            /\ last' = [Envelope EXCEPT !.op = "addQuestion",
                                        !.examId = examId,
                                        !.position = position,
                                        !.status = Propagated, !.cid = NoCid,
                                        !.calls = {"addExamQuestionHandler"}]
    /\ UNCHANGED <<exams, questions, inp, done, qsVars, hdr, wzVars, pgVars,
                   mgVars>>

\* the handler writes and the controller answers
addQuestionWrites ==
  \E p \in pending :
    LET w == WriteAdd(questions, p) IN
    /\ questions' = w.questions
    /\ pending' = pending \ {p}
    /\ done' = done \cup {[cmd |-> p.cmd, new |-> w.new.id,
                           seen |-> {q.id : q \in p.seen}]}
    /\ last' = [Envelope EXCEPT !.op = "addQuestion",
                                !.examId = p.cmd.examId,
                                !.position = p.cmd.position,
                                !.status = 200,
                                !.calls = {"addExamQuestionHandler"},
                                !.created = {w.new}]
    /\ UNCHANGED <<exams, inp, qsVars, hdr, wzVars, pgVars, mgVars>>

(* ------------------------------ quick-save ---------------------------- *)
MaxRaw == 3         \* longest list of questions given to the normalization
MaxBodyRaw == 2     \* longest list of questions in a quick-save body
MaxSaved == 2       \* rows the SavedExam table holds at most

Suffixes == {"0", "1"}   \* what Math.random().toString(36).slice(2,6) may draw

\* An optional field of a body: absent, or present with one of the values.
Opt(f, V) == {<< >>} \cup {f :> v : v \in V}

\* Incoming questions.  An id is a string, written as the sequence of its
\* parts between underscores, or a number; ids and types may be missing.
RawQuestions ==
  {<< >>,
   [type |-> "true_false"],
   [id |-> [str |-> <<"1">>]],
   [id |-> [num |-> 1]],
   [id |-> [str |-> <<"1", "0">>]]}
RawLists == UNION {[1..n -> RawQuestions] : n \in 0..MaxRaw}
BodyRawLists == UNION {[1..n -> RawQuestions] : n \in 0..MaxBodyRaw}

\* The bodies of quick-save requests.
Bodies ==
  {c @@ t @@ m @@ q :
     c \in Opt("courseId", {"", "c2"}),
     t \in Opt("teacherId", {"tB"}),
     m \in {<< >>, [subject |-> "Algebra", difficulty |-> "alto"]},
     q \in {<< >>, [content |-> [note |-> "n"]]}
           \cup {[questions |-> r] : r \in BodyRawLists}
           \cup {[questions |-> r, content |-> [note |-> "n"]] : r \in BodyRawLists}
           \cup {[content |-> [questions |-> r]] : r \in BodyRawLists}}

\* The Course tables: c1 of teacher tA or of nobody, c2 of teacher tB.
CourseTables ==
  {a \cup b :
     a \in {{}} \cup {{[id |-> "c1", teacherId |-> "tA", createdAt |-> n]} : n \in 1..3}
           \cup {{[id |-> "c1", teacherId |-> NoTeacher, createdAt |-> 1]}},
     b \in {{}, {[id |-> "c2", teacherId |-> "tB", createdAt |-> 2]}}}

\* body?.f ?? d
GetOr(b, f, d) == IF f \in DOMAIN b THEN b[f] ELSE d

\* !v for a string that may be missing
Missing(b, f) == f \notin DOMAIN b \/ b[f] = ""

findFirst_latest(cs) ==
  {c \in cs : \A d \in cs : c.createdAt >= d.createdAt}

\* prisma.course.findFirst({orderBy: {createdAt: 'asc'}}): the rows the
\* query may return; none when the table is empty
findFirst(cs) ==
  {c \in cs : \A d \in cs : c.createdAt <= d.createdAt}

\* String(v) of an id
StringOfId(v) == IF "num" \in DOMAIN v THEN <<ToString(v.num)>> ELSE v.str

\* String(q?.type ?? 'open_analysis')
TypeOf(q) == GetOr(q, "type", "open_analysis")

\* String(q?.id ?? `q_${ts}_${t}_${i}`), i counted from 0
BaseId(q, i) ==
  IF "id" \in DOMAIN q THEN StringOfId(q.id)
  ELSE <<"q", "ts", TypeOf(q), ToString(i)>>

Resolve_once(id, used) ==
  IF id \notin used THEN {id}
  ELSE {id \o <<r>> : r \in Suffixes}

RECURSIVE Resolve(_, _)
\* while (used.has(id)) id = `${id}_${random}`: the ids the loop may end on
Resolve(id, used) ==
  IF id \notin used THEN {id}
  ELSE UNION {Resolve(id \o <<r>>, used) : r \in Suffixes}

RECURSIVE NormalizeFrom(_, _, _)
\* rawQuestions.map(...) from the i-th question on, given the ids used so far
NormalizeFrom(raw, i, used) ==
  IF i > Len(raw) THEN {<< >>}
  ELSE UNION {{<<[id |-> id, type |-> TypeOf(raw[i])]>> \o rest :
                 rest \in NormalizeFrom(raw, i + 1, used \cup {id})} :
              id \in Resolve(BaseId(raw[i], i - 1), used)}

\* the lists of normalized questions the map may produce
Normalize(raw) == NormalizeFrom(raw, 1, {})

\* Array.isArray(body?.questions) ? ... : Array.isArray(body?.content?.questions) ? ... : []
rawQuestions(b) ==
  IF "questions" \in DOMAIN b THEN b.questions
  ELSE IF "content" \in DOMAIN b /\ "questions" \in DOMAIN b.content
       THEN b.content.questions
       ELSE << >>

\* body?.content && typeof body.content === 'object' ? body.content : {...}
contentOf(b, qs) ==
  IF "content" \in DOMAIN b THEN b.content
  ELSE [subject |-> GetOr(b, "subject", "Tema general"),
        difficulty |-> GetOr(b, "difficulty", "medio"),
        createdAt |-> "now",
        questions |-> qs]

resolveCourse_noReturn(b, first) ==
  IF ~ Missing(b, "courseId")
  THEN [ok |-> TRUE, courseId |-> b.courseId,
        teacher |-> IF Missing(b, "teacherId") THEN {} ELSE {b.teacherId}]
  ELSE IF first = {}
       THEN [ok |-> TRUE, courseId |-> "",
             teacher |-> IF Missing(b, "teacherId") THEN {} ELSE {b.teacherId}]
       ELSE LET fc == CHOOSE c \in first : TRUE IN
            [ok |-> TRUE, courseId |-> fc.id,
             teacher |-> IF ~ Missing(b, "teacherId") THEN {b.teacherId}
                         ELSE IF fc.teacherId # NoTeacher THEN {fc.teacherId}
                         ELSE {}]

\* ExamsController.quickSave, the course and the teacher of the saved exam;
\* first is what findFirst returned: a course, or nothing
resolveCourse(b, first) ==
  IF ~ Missing(b, "courseId")
  THEN [ok |-> TRUE, courseId |-> b.courseId,
        teacher |-> IF Missing(b, "teacherId") THEN {} ELSE {b.teacherId}]
  ELSE IF first = {}
       THEN [ok |-> FALSE, courseId |-> "", teacher |-> {}]
       ELSE LET fc == CHOOSE c \in first : TRUE IN
            [ok |-> TRUE, courseId |-> fc.id,
             teacher |-> IF ~ Missing(b, "teacherId") THEN {b.teacherId}
                         ELSE IF fc.teacherId # NoTeacher THEN {fc.teacherId}
                         ELSE {}]

\* the data handed to prisma.savedExam.create, under the id the table gives
savedRow(b, r, qs, rows) ==
  [id |-> Cardinality(rows) + 1,
   title |-> GetOr(b, "title", "Examen"),
   status |-> "Guardado",
   content |-> contentOf(b, qs),
   courseId |-> r.courseId]
  @@ (IF r.teacher = {} THEN << >>
      ELSE "teacherId" :> (CHOOSE t \in r.teacher : TRUE))

\* ExamsController.quickSave
quickSave ==
  \E first \in (IF Missing(body, "courseId") /\ findFirst(courses) # {}
                THEN {{c} : c \in findFirst(courses)} ELSE {{}}) :
    LET r == resolveCourse(body, first)
        looked == IF Missing(body, "courseId") THEN {"course.findFirst"} ELSE {}
    IN
    IF ~ r.ok
    THEN /\ last' = [Envelope EXCEPT !.op = "quickSave", !.status = 400,
                                  !.error = "Bad Request", !.calls = looked]
         /\ UNCHANGED <<exams, questions, inp, qsVars, hdr, wzVars, ccVars, pgVars,
                    mgVars>>
    ELSE \E qs \in Normalize(rawQuestions(body)) :
         LET row == savedRow(body, r, qs, savedExams) IN
         /\ Cardinality(savedExams) < MaxSaved
         /\ savedExams' = savedExams \cup {row}
         /\ last' = [Envelope EXCEPT !.op = "quickSave", !.status = 200,
                                  !.calls = looked \cup {"savedExam.create"},
                                  !.created = {row}, !.normalized = qs]
         /\ UNCHANGED <<exams, questions, inp, courses, body, hdr, wzVars, ccVars, pgVars,
                    mgVars>>

(* --------------------------- attempts validation ----------------------- *)
MaxAttemptLen == 3   \* longest attempts value given to validateAttempts

AttemptChars == {"0", "1", "3", "4", ".", "-", "a"}
DigitChars == {"0", "1", "2", "3", "4", "5", "6", "7", "8", "9"}
AttemptInputs == UNION {[1..n -> AttemptChars] : n \in 0..MaxAttemptLen}

DigitVal(c) ==
  CASE c = "0" -> 0 [] c = "1" -> 1 [] c = "2" -> 2 [] c = "3" -> 3
    [] c = "4" -> 4 [] c = "5" -> 5 [] c = "6" -> 6 [] c = "7" -> 7
    [] c = "8" -> 8 [] c = "9" -> 9

RECURSIVE Pow10(_)
Pow10(k) == IF k = 0 THEN 1 ELSE 10 * Pow10(k - 1)

RECURSIVE Mantissa(_)
\* the digits of s read as one integer, a decimal point skipped
Mantissa(s) ==
  IF s = << >> THEN 0
  ELSE LET c == s[Len(s)]
           rest == SubSeq(s, 1, Len(s) - 1)
       IN IF c = "." THEN Mantissa(rest)
          ELSE 10 * Mantissa(rest) + DigitVal(c)

\* Number(value) on a decimal literal: an optional minus sign, digits and at
\* most one decimal point with a digit on one side of it.  The result is
\* the number m / 10^k, negated when neg; every other non-empty value is NaN
\* and '' is 0.
Number(value) ==
  LET neg == value # << >> /\ Head(value) = "-"
      digs == IF neg THEN Tail(value) ELSE value
      dots == {i \in 1..Len(digs) : digs[i] = "."}
      wellFormed ==
        /\ \A i \in 1..Len(digs) : digs[i] \in DigitChars \cup {"."}
        /\ Cardinality(dots) <= 1
        /\ \E i \in 1..Len(digs) : digs[i] \in DigitChars
      k == IF dots = {} THEN 0
           ELSE Len(digs) - (CHOOSE i \in dots : TRUE)
  IN IF value = << >> THEN [nan |-> FALSE, neg |-> FALSE, m |-> 0, k |-> 0]
     ELSE IF ~ wellFormed THEN [nan |-> TRUE, neg |-> FALSE, m |-> 0, k |-> 0]
     ELSE [nan |-> FALSE, neg |-> neg, m |-> Mantissa(digs), k |-> k]

\* num < 1 and num > 3 on the number m / 10^k
LessThanOne(n) == n.neg \/ n.m < Pow10(n.k)
MoreThanThree(n) == ~ n.neg /\ n.m > 3 * Pow10(n.k)

\* the messages of validateAttempts, accents left out
MSG_REQUIRED == "Debes ingresar un numero de intentos."
MSG_MIN == "El numero de intentos debe ser al menos 1."
MSG_MAX == "El numero de intentos no puede ser mayor a 3."

\* ExamForm.validateAttempts
validateAttempts(value) ==
  LET num == Number(value) IN
  IF value = << >> \/ num.nan THEN MSG_REQUIRED
  ELSE IF LessThanOne(num) THEN MSG_MIN
  ELSE IF MoreThanThree(num) THEN MSG_MAX
  ELSE ""

NotValidated == "not-validated"
AttemptsIdle == att = [value |-> << >>, msg |-> NotValidated]

\* one call of validateAttempts
validateAttemptsCall ==
  /\ att.msg = NotValidated
  /\ att' = [att EXCEPT !.msg = validateAttempts(att.value)]
  /\ UNCHANGED backendVars
  /\ UNCHANGED <<step, values, errors, sending, inflight, mounted, wzLast>>

(* ------------------------------ the wizard ----------------------------- *)
MaxInflight == 1     \* createExam calls in flight at most

CountFields == {"multipleChoice", "trueFalse", "analysis", "openEnded"}
SubjectInputs == {<< >>, <<" ">>, <<"a">>, <<" ", " ", "a">>}
Difficulties == {"medio", "dificil"}
RadioAttempts == {<<"1">>, <<"2">>, <<"3">>}
CountInputs == {"1"}                        \* a number input
TimeInputs == {60}                          \* the range input, 45..240
References == {"", "ref"}
TIME_ERR == "timeMinutes invalid"

RECURSIVE CollapseSpaces(_)
\* value.replace(/\s+/g, ' ')
CollapseSpaces(s) ==
  IF Len(s) < 2 THEN s
  ELSE IF s[1] = " " /\ s[2] = " " THEN CollapseSpaces(Tail(s))
       ELSE <<s[1]>> \o CollapseSpaces(Tail(s))

RECURSIVE TrimStart(_)
TrimStart(s) ==
  IF s # << >> /\ Head(s) = " " THEN TrimStart(Tail(s)) ELSE s

\* the initial values of useExamForm
hookValues ==
  [subject |-> << >>, difficulty |-> "", attempts |-> << >>,
   multipleChoice |-> "", trueFalse |-> "", analysis |-> "",
   openEnded |-> "", timeMinutes |-> 45, reference |-> ""]

NoInitialData == << >>
InitialDatas ==
  {NoInitialData,
   [subject |-> <<"a">>, attempts |-> <<"1", ".", "1">>],
   [questions |-> <<[type |-> "true_false"]>>]}

\* initialData.questions?.filter(q => q.type === t).length || 0
\* and String(count)
CountOfType(d, t) ==
  IF "questions" \in DOMAIN d THEN ToString(Len(SeqFilter(d.questions, t)))
  ELSE "0"

\* the initializer of useState for values
InitialValues(d) ==
  IF DOMAIN d = {}
  THEN [hookValues EXCEPT !.multipleChoice = "", !.trueFalse = "",
                          !.analysis = "", !.openEnded = "",
                          !.timeMinutes = 45]
  ELSE [hookValues EXCEPT
          !.subject = GetOr(d, "subject", << >>),
          !.difficulty = GetOr(d, "difficulty", "medio"),
          !.attempts = GetOr(d, "attempts", <<"1">>),
          !.multipleChoice = CountOfType(d, "multiple_choice"),
          !.trueFalse = CountOfType(d, "true_false"),
          !.analysis = CountOfType(d, "open_analysis"),
          !.openEnded = CountOfType(d, "open_exercise"),
          !.timeMinutes = 45]

\* what the unmount cleanup sets
ClearedValues ==
  [subject |-> << >>, difficulty |-> "", attempts |-> << >>,
   multipleChoice |-> "", trueFalse |-> "", analysis |-> "",
   openEnded |-> "", timeMinutes |-> 45, reference |-> ""]

\* useExamForm.getTotalQuestions: the sum of the four count fields
NumberOfCount(v) ==
  IF v = "" THEN 0 ELSE CHOOSE n \in 0..9 : ToString(n) = v
getTotalQuestions(vals) ==
  NumberOfCount(vals.multipleChoice) + NumberOfCount(vals.trueFalse)
  + NumberOfCount(vals.analysis) + NumberOfCount(vals.openEnded)

\* useExamForm.validate: its verdict and the timeMinutes error it reports
ValidateResults == [valid : BOOLEAN, errors : [timeMinutes : {"", TIME_ERR}]]

\* ExamForm.validStep; values.timeMinutes is a number or a non-empty string
\* of the range input, so !!values.timeMinutes is true
validStep(st, vals, errs) ==
  IF st = 0
  THEN /\ vals.subject # << >> /\ vals.difficulty # "" /\ vals.attempts # << >>
       /\ validateAttempts(vals.attempts) = ""
  ELSE IF st = 1 THEN getTotalQuestions(vals) > 0
  ELSE errs.timeMinutes = ""

\* the effect on [step]: arriving at step 2 sets timeMinutes to 45
StepEffect(st, vals) ==
  IF st = 2 THEN [vals EXCEPT !.timeMinutes = 45] ELSE vals

NoEvent == [op |-> "none", calls |-> {}, outcome |-> ""]
Event(op, calls) == [op |-> op, calls |-> calls, outcome |-> ""]

\* ExamForm.onChange, from the inputs the current step renders
onChange ==
  /\ mounted
  /\ \E v \in ValidateResults :
       \/ /\ step = 0
          /\ \/ \E raw \in SubjectInputs :
                  /\ values' = [values EXCEPT
                                  !.subject = TrimStart(CollapseSpaces(raw))]
                  /\ errors' = v.errors
             \/ \E d \in Difficulties :
                  /\ values' = [values EXCEPT !.difficulty = d]
                  /\ errors' = v.errors
             \/ \E a \in RadioAttempts :
                  /\ values' = [values EXCEPT !.attempts = a]
                  /\ errors' = errors
       \/ /\ step = 1
          /\ \E f \in CountFields, c \in CountInputs :
               values' = [values EXCEPT ![f] = c]
          /\ errors' = v.errors
       \/ /\ step = 2
          /\ \/ \E t \in TimeInputs : values' = [values EXCEPT !.timeMinutes = t]
             \/ \E r \in References : values' = [values EXCEPT !.reference = r]
          /\ errors' = v.errors
  /\ wzLast' = Event("onChange", {})
  /\ UNCHANGED <<step, sending, inflight, mounted, att, backendVars>>

previous_unguarded ==
  /\ mounted
  /\ step' = step - 1
  /\ wzLast' = Event("previous", {})
  /\ UNCHANGED <<values, errors, sending, inflight, mounted, att, backendVars>>

\* the Anterior button, rendered when step > 0
previous ==
  /\ mounted
  /\ step > 0
  /\ step' = step - 1
  /\ wzLast' = Event("previous", {})
  /\ UNCHANGED <<values, errors, sending, inflight, mounted, att, backendVars>>

\* the Siguiente button, rendered when step < 2 and enabled when
\* !sending && validStep()
next ==
  /\ mounted
  /\ step < 2
  /\ ~ sending
  /\ validStep(step, values, errors)
  /\ step' = step + 1
  /\ values' = StepEffect(step + 1, values)
  /\ wzLast' = Event("next", {})
  /\ UNCHANGED <<errors, sending, inflight, mounted, att, backendVars>>

\* the Limpiar button
onResetStep ==
  /\ mounted
  /\ ~ \/ step = 0 /\ values.subject = << >> /\ values.difficulty = ""
                   /\ values.attempts = << >>
       \/ step = 1 /\ \A f \in CountFields : values[f] = ""
  /\ values' =
       IF step = 0
       THEN [values EXCEPT !.subject = << >>, !.difficulty = "",
                           !.attempts = << >>]
       ELSE IF step = 1
       THEN [values EXCEPT !.multipleChoice = "", !.trueFalse = "",
                           !.analysis = "", !.openEnded = ""]
       ELSE [values EXCEPT !.timeMinutes = 45, !.reference = ""]
  /\ \E v \in ValidateResults : errors' = v.errors
  /\ wzLast' = Event("onResetStep", {})
  /\ UNCHANGED <<step, sending, inflight, mounted, att, backendVars>>

\* ExamForm.onSubmit up to its await
onSubmit ==
  /\ mounted
  /\ \E v \in ValidateResults :
       /\ errors' = v.errors
       /\ IF ~ v.valid
          THEN /\ wzLast' = Event("onSubmit", {})
               /\ UNCHANGED <<step, values, sending, inflight>>
          ELSE IF step < 2
          THEN /\ step' = step + 1
               /\ values' = StepEffect(step + 1, values)
               /\ wzLast' = Event("onSubmit", {})
               /\ UNCHANGED <<sending, inflight>>
          ELSE IF ~ (getTotalQuestions(values) > 0)
          THEN /\ wzLast' = Event("onSubmit", {})
               /\ UNCHANGED <<step, values, sending, inflight>>
          ELSE /\ inflight < MaxInflight
               /\ sending' = TRUE
               /\ inflight' = inflight + 1
               /\ wzLast' = Event("onSubmit", {"createExam"})
               /\ UNCHANGED <<step, values>>
  /\ UNCHANGED <<mounted, att, backendVars>>

\* ExamForm.onSubmit after its await: createExam resolved with ok, resolved
\* with an error, or rejected; finally setSending(false)
createExamSettles ==
  /\ inflight > 0
  /\ \E outcome \in {"ok", "error", "rejected"} :
       wzLast' = [op |-> "createExamSettles", calls |-> {},
                  outcome |-> outcome]
  /\ inflight' = inflight - 1
  /\ sending' = FALSE
  /\ UNCHANGED <<step, values, errors, mounted, att, backendVars>>

\* the Generar preguntas con IA button (onGenerateAI is passed by the page)
generateAI ==
  /\ mounted
  /\ step = 2
  /\ ~ sending
  /\ validStep(step, values, errors)
  /\ wzLast' = Event("generateAI", {"onGenerateAI"})
  /\ UNCHANGED <<step, values, errors, sending, inflight, mounted, att,
                 backendVars>>

\* the cleanup of the mount effect
unmount ==
  /\ mounted
  /\ mounted' = FALSE
  /\ values' = ClearedValues
  /\ wzLast' = Event("unmount", {})
  /\ UNCHANGED <<step, errors, sending, inflight, att, backendVars>>

\* The form is not on the page.
WizardIdle ==
  /\ AttemptsIdle
  /\ step = 0
  /\ values = ClearedValues
  /\ errors = [timeMinutes |-> ""]
  /\ sending = FALSE
  /\ inflight = 0
  /\ mounted = FALSE
  /\ wzLast = NoEvent

(* ------------------------- the exam-create page ------------------------ *)
MaxCalls == 2     \* generateQuestions calls the page makes at most
MaxNow == 1       \* the clock read by Date.now() advances up to this
MaxList == 2      \* questions the list holds at most after a manual add
MaxResponse == 2  \* questions one generation response holds at most

\* the messages of setAiError, accents left out
ERR_SUM == "La suma de la distribucion debe ser al menos 1."
ERR_NONE == "No se generaron preguntas. Revisa el backend y/o el DTO."
ERR_PROPOSE == "Error inesperado generando preguntas."
ERR_ALL == "No se pudo regenerar el set completo."
ERR_ONE == "No se pudo regenerar esa pregunta."
NoError == "null"            \* aiError is null

\* What formRef.current.getSnapshot().values and readJSON('exam:draft') hold:
\* text fields as strings, the count fields as the characters typed.  A field
\* the object lacks is undefined.
NoDraft == << >>             \* readJSON returns null
PageCounts == {<< >>, <<"0">>, <<"1">>}
SnapshotValues ==
  [subject : {"", "a"}, difficulty : {"dificil"},
   multipleChoice : PageCounts, trueFalse : PageCounts,
   analysis : {<< >>}, openEnded : {<< >>}]
Drafts ==
  {NoDraft, [subject |-> "b"], [subject |-> "b", trueFalse |-> <<"1">>]}

\* raw.k ?? dflt
Field(raw, k, dflt) == IF k \in DOMAIN raw THEN raw[k] ELSE dflt

\* Number(raw.k ?? 0) || 0, for the values of a number input without a
\* decimal point: NaN and 0 give 0
NumberOrZero(raw, k) ==
  IF k \notin DOMAIN raw THEN 0
  ELSE LET n == Number(raw[k])
       IN IF n.nan THEN 0 ELSE IF n.neg THEN 0 - n.m ELSE n.m

\* difficultyMap[key] ?? 'medio'; the accented values are written with an
\* apostrophe after the vowel
difficultyMap(key) ==
  CASE key \in {"facil", "fa'cil", "easy"} -> "fa'cil"
    [] key \in {"medio", "media", "medium"} -> "medio"
    [] key \in {"dificil", "difi'cil", "hard"} -> "difi'cil"
    [] OTHER -> "medio"

\* ExamsCreatePage.buildAiInputFromForm
buildAiInputFromForm(raw) ==
  LET distribution ==
        [multiple_choice |-> NumberOrZero(raw, "multipleChoice"),
         true_false |-> NumberOrZero(raw, "trueFalse"),
         open_analysis |-> NumberOrZero(raw, "analysis"),
         open_exercise |-> NumberOrZero(raw, "openEnded")]
  IN [subject |-> Field(raw, "subject", Field(raw, "topic", "Tema general")),
      difficulty |-> difficultyMap(Field(raw, "difficulty", "medio")),
      totalQuestions |-> distribution.multiple_choice
                         + distribution.true_false
                         + distribution.open_analysis
                         + distribution.open_exercise,
      reference |-> Field(raw, "reference", ""),
      distribution |-> distribution,
      language |-> "es"]

\* the dto of onRegenerateOne: {...base, totalQuestions: 1, distribution}
oneDto(base, q) ==
  [base EXCEPT
     !.totalQuestions = 1,
     !.distribution =
        [multiple_choice |-> IF q.type = "multiple_choice" THEN 1 ELSE 0,
         true_false |-> IF q.type = "true_false" THEN 1 ELSE 0,
         open_analysis |-> IF q.type = "open_analysis" THEN 1 ELSE 0,
         open_exercise |-> IF q.type = "open_exercise" THEN 1 ELSE 0]]

(* A question of the list: id, type, include and text.                      *)
NoQuestion == [id |-> "", type |-> "", include |-> FALSE, text |-> ""]
NoDto == [totalQuestions |-> 0]
NoCall == [n |-> 0, kind |-> "none", dto |-> NoDto, q |-> NoQuestion]

\* ai-utils.cloneQuestion: a copy of the question
cloneQuestion(q) == [k \in DOMAIN q |-> q[k]]

\* ai-utils.replaceQuestion: the list with q in the place of the questions
\* of its id
replaceQuestion(list, q) ==
  [i \in 1..Len(list) |-> IF list[i].id = q.id THEN q ELSE list[i]]

\* ai-utils.reorderQuestions: the question at from is taken out and put in
\* at to (positions from 1)
reorderQuestions(list, from, to) ==
  IF from \notin 1..Len(list) \/ to \notin 1..Len(list) THEN list
  ELSE LET moved == list[from]
           rest == [i \in 1..(Len(list) - 1) |->
                      IF i < from THEN list[i] ELSE list[i + 1]]
       IN [i \in 1..Len(list) |->
             IF i < to THEN rest[i]
             ELSE IF i = to THEN moved ELSE rest[i - 1]]

\* normalizeToQuestions(res) of the answer to a call: up to MaxResponse
\* questions, numbered within the answer and carrying the mark of the call;
\* the one question asked for by onRegenerateOne has the kind asked for
GeneratedTypes == <<"multiple_choice", "true_false", "open_analysis">>
Mark(n) == IF n = 1 THEN "r1" ELSE IF n = 2 THEN "r2" ELSE "r3"
GeneratedId(i) == IF i = 1 THEN "q_1" ELSE IF i = 2 THEN "q_2" ELSE "q_3"
Generated(call, i) ==
  [id |-> GeneratedId(i),
   type |-> IF call.kind = "one" THEN call.q.type ELSE GeneratedTypes[i],
   include |-> TRUE,
   text |-> Mark(call.n)]
Responses(call) ==
  {[i \in 1..k |-> Generated(call, i)] : k \in 0..MaxResponse}

\* `manual_${Date.now()}`
ManualId(t) == IF t = 0 THEN "manual_0" ELSE IF t = 1 THEN "manual_1"
               ELSE IF t = 2 THEN "manual_2" ELSE "manual_3"
ManualTypes == {"true_false", "open_analysis"}
ManualText(type) ==
  CASE type = "multiple_choice" -> "Escribe aqui tu pregunta de opcion multiple"
    [] type = "true_false" -> "Enuncia aqui tu afirmacion"
    [] type = "open_exercise" -> "Describe aqui el enunciado"
    [] OTHER -> "Escribe aqui tu consigna de analisis abierto"

NoPageEvent ==
  [op |-> "none", sent |-> {}, call |-> NoCall, outcome |-> "",
   list |-> << >>, propagated |-> FALSE]
PageEvent(op) == [NoPageEvent EXCEPT !.op = op]

InitialPage ==
  [aiOpen |-> FALSE, aiLoading |-> FALSE, aiError |-> NoError,
   aiQuestions |-> << >>,
   aiMeta |-> [subject |-> "Tema general", difficulty |-> "medio",
               reference |-> ""]]

\* ExamsCreatePage.handleAIPropose up to its await; the form that carries
\* the button is hidden (display: none) once aiOpen is set
handleAIPropose ==
  /\ ~ page.aiOpen
  /\ LET data == IF form.values.subject # "" THEN form.values ELSE form.draft
     IN IF DOMAIN data = {}
        THEN /\ pgLast' = PageEvent("handleAIPropose")
             /\ UNCHANGED <<page, aiCalls, issued>>
        ELSE
          LET dto == buildAiInputFromForm(data)
              meta == [subject |-> Field(data, "subject", "Tema general"),
                       difficulty |-> Field(data, "difficulty", "medio"),
                       reference |-> Field(data, "reference", "")]
          IN IF dto.totalQuestions <= 0
             THEN /\ page' = [page EXCEPT !.aiMeta = meta, !.aiOpen = TRUE,
                                          !.aiQuestions = << >>,
                                          !.aiError = ERR_SUM]
                  /\ pgLast' = PageEvent("handleAIPropose")
                  /\ UNCHANGED <<aiCalls, issued>>
             ELSE /\ issued < MaxCalls
                  /\ page' = [page EXCEPT !.aiMeta = meta, !.aiOpen = TRUE,
                                          !.aiLoading = TRUE,
                                          !.aiError = NoError]
                  /\ aiCalls' = aiCalls \cup
                       {[n |-> issued + 1, kind |-> "propose", dto |-> dto,
                         q |-> NoQuestion]}
                  /\ issued' = issued + 1
                  /\ pgLast' = [PageEvent("handleAIPropose")
                                  EXCEPT !.sent = {dto}]
  /\ UNCHANGED <<form, now, exams, questions, last, inp, qsVars, hdr,
                 wzVars, ccVars, mgVars>>

\* ExamsCreatePage.onRegenerateAll up to its await (AiResults is rendered
\* when aiOpen is set)
onRegenerateAll ==
  /\ page.aiOpen
  /\ issued < MaxCalls
  /\ LET dto == buildAiInputFromForm(form.values)
     IN /\ page' = [page EXCEPT !.aiLoading = TRUE, !.aiError = NoError]
        /\ aiCalls' = aiCalls \cup
             {[n |-> issued + 1, kind |-> "all", dto |-> dto,
               q |-> NoQuestion]}
        /\ pgLast' = [PageEvent("onRegenerateAll") EXCEPT !.sent = {dto}]
  /\ issued' = issued + 1
  /\ UNCHANGED <<form, now, exams, questions, last, inp, qsVars, hdr,
                 wzVars, ccVars, mgVars>>

\* ExamsCreatePage.onRegenerateOne up to its await, for a question shown
onRegenerateOne ==
  /\ page.aiOpen
  /\ issued < MaxCalls
  /\ \E i \in 1..Len(page.aiQuestions) :
       LET q == page.aiQuestions[i]
           dto == oneDto(buildAiInputFromForm(form.values), q)
       IN /\ aiCalls' = aiCalls \cup
               {[n |-> issued + 1, kind |-> "one", dto |-> dto, q |-> q]}
          /\ pgLast' = [PageEvent("onRegenerateOne") EXCEPT !.sent = {dto}]
  /\ issued' = issued + 1
  /\ UNCHANGED <<page, form, now, exams, questions, last, inp, qsVars, hdr,
                 wzVars, ccVars, mgVars>>

\* every handler wraps its await in try / catch and none rethrows
Catches(kind) == kind \in {"propose", "all", "one"}

settled_noFinally(pg, call, outcome, list) ==
  IF call.kind = "one"
  THEN IF outcome = "rejected" THEN [pg EXCEPT !.aiError = ERR_ONE]
       ELSE IF list = << >> THEN pg
       ELSE [pg EXCEPT !.aiQuestions =
               replaceQuestion(@, cloneQuestion(
                 [list[1] EXCEPT !.id = call.q.id,
                                 !.include = call.q.include]))]
  ELSE IF outcome = "rejected"
       THEN [pg EXCEPT !.aiError = IF call.kind = "propose" THEN ERR_PROPOSE
                                   ELSE ERR_ALL]
       ELSE [pg EXCEPT
               !.aiQuestions = [i \in 1..Len(list) |-> cloneQuestion(list[i])],
               !.aiError = IF call.kind = "propose" /\ list = << >>
                           THEN ERR_NONE ELSE @,
               !.aiLoading = FALSE]

\* What the handlers do after their await: the try block on an answer, the
\* catch block on a rejection, and the finally block of handleAIPropose and
\* onRegenerateAll
settled(pg, call, outcome, list) ==
  IF call.kind = "one"
  THEN IF outcome = "rejected" THEN [pg EXCEPT !.aiError = ERR_ONE]
       ELSE IF list = << >> THEN pg
       ELSE [pg EXCEPT !.aiQuestions =
               replaceQuestion(@, cloneQuestion(
                 [list[1] EXCEPT !.id = call.q.id,
                                 !.include = call.q.include]))]
  ELSE IF outcome = "rejected"
       THEN [pg EXCEPT !.aiError = IF call.kind = "propose" THEN ERR_PROPOSE
                                   ELSE ERR_ALL,
                       !.aiLoading = FALSE]
       ELSE [pg EXCEPT
               !.aiQuestions = [i \in 1..Len(list) |-> cloneQuestion(list[i])],
               !.aiError = IF call.kind = "propose" /\ list = << >>
                           THEN ERR_NONE ELSE @,
               !.aiLoading = FALSE]

generationSettles_dropsStale ==
  /\ \E call \in aiCalls :
       /\ \/ \E list \in Responses(call) :
               /\ page' = IF call.n < issued THEN page
                          ELSE settled(page, call, "resolved", list)
               /\ pgLast' = [PageEvent("generationSettles") EXCEPT
                               !.call = call, !.outcome = "resolved",
                               !.list = list]
          \/ /\ page' = settled(page, call, "rejected", << >>)
             /\ pgLast' = [PageEvent("generationSettles") EXCEPT
                             !.call = call, !.outcome = "rejected",
                             !.propagated = ~ Catches(call.kind)]
       /\ aiCalls' = aiCalls \ {call}
  /\ UNCHANGED <<form, issued, now, exams, questions, last, inp, qsVars, hdr,
                 wzVars, ccVars, mgVars>>

\* a generateQuestions call settles: it resolves with an answer or rejects
generationSettles ==
  /\ \E call \in aiCalls :
       /\ \/ \E list \in Responses(call) :
               /\ page' = settled(page, call, "resolved", list)
               /\ pgLast' = [PageEvent("generationSettles") EXCEPT
                               !.call = call, !.outcome = "resolved",
                               !.list = list]
          \/ /\ page' = settled(page, call, "rejected", << >>)
             /\ pgLast' = [PageEvent("generationSettles") EXCEPT
                             !.call = call, !.outcome = "rejected",
                             !.propagated = ~ Catches(call.kind)]
       /\ aiCalls' = aiCalls \ {call}
  /\ UNCHANGED <<form, issued, now, exams, questions, last, inp, qsVars, hdr,
                 wzVars, ccVars, mgVars>>

\* ExamsCreatePage.onChangeQuestion with what AiResults hands it: a question
\* shown whose include flag or text was changed
onChangeQuestion ==
  /\ page.aiOpen
  /\ \E i \in 1..Len(page.aiQuestions) :
       \E q \in {[page.aiQuestions[i] EXCEPT !.include = ~ @],
                 [page.aiQuestions[i] EXCEPT !.text = "edited"]} :
         /\ q # page.aiQuestions[i]
         /\ page' = [page EXCEPT !.aiQuestions = replaceQuestion(@, q)]
  /\ pgLast' = PageEvent("onChangeQuestion")
  /\ UNCHANGED <<form, aiCalls, issued, now, exams, questions, last, inp, qsVars, hdr,
                 wzVars, ccVars, mgVars>>

\* ExamsCreatePage.onReorderQuestion
onReorderQuestion ==
  /\ page.aiOpen
  /\ \E from, to \in 1..Len(page.aiQuestions) :
       /\ from # to
       /\ page' = [page EXCEPT
                     !.aiQuestions = reorderQuestions(@, from, to)]
  /\ pgLast' = PageEvent("onReorderQuestion")
  /\ UNCHANGED <<form, aiCalls, issued, now, exams, questions, last, inp, qsVars, hdr,
                 wzVars, ccVars, mgVars>>

\* ExamsCreatePage.onAddManual
onAddManual ==
  /\ page.aiOpen
  /\ Len(page.aiQuestions) < MaxList
  /\ \E type \in ManualTypes :
       page' = [page EXCEPT !.aiQuestions =
                  Append(@, cloneQuestion([id |-> ManualId(now), type |-> type,
                                           include |-> TRUE,
                                           text |-> ManualText(type)]))]
  /\ pgLast' = PageEvent("onAddManual")
  /\ UNCHANGED <<form, aiCalls, issued, now, exams, questions, last, inp, qsVars, hdr,
                 wzVars, ccVars, mgVars>>

\* a millisecond passes
tick ==
  /\ now < MaxNow
  /\ now' = now + 1
  /\ pgLast' = PageEvent("tick")
  /\ UNCHANGED <<page, form, aiCalls, issued, exams, questions, last, inp, qsVars, hdr,
                 wzVars, ccVars, mgVars>>

\* The page is not shown.
PageIdle ==
  /\ page = InitialPage
  /\ form = [values |-> [subject |-> "", difficulty |-> "dificil",
                         multipleChoice |-> << >>, trueFalse |-> << >>,
                         analysis |-> << >>, openEnded |-> << >>],
             draft |-> NoDraft]
  /\ aiCalls = {}
  /\ issued = 0
  /\ now = 0
  /\ pgLast = NoPageEvent

(* ----------------------------- the migration --------------------------- *)
MaxExamRows == 2    \* rows of the Exam table
MaxSavedRows == 2   \* rows of the SavedExam table

NULL == "NULL"                       \* the SQL null of a content column
NullId == 0                          \* the SQL null of SavedExam.examId
SavedContents == {NULL, "a", "b"}    \* values of SavedExam.content
ExamContents == {NULL, "x"}          \* values of an Exam.content already there

\* The columns the statements test for or alter.
Columns ==
  [examContent : BOOLEAN,      \* Exam.content exists
   savedContent : BOOLEAN,     \* SavedExam.content exists
   savedIdInteger : BOOLEAN,   \* SavedExam.id is of type integer
   examIdNotNull : {FALSE},    \* SavedExam.examId is NOT NULL
   approvedAt : BOOLEAN]       \* Exam.approvedAt exists

\* A column that does not exist holds NULL in every row of the model; only
\* the first exam may have a content of its own before the migration.
ExamTables(cols) ==
  {t \in [1..MaxExamRows -> ExamContents] :
     /\ ~ cols.examContent => \A i \in 1..MaxExamRows : t[i] = NULL
     /\ \A i \in 2..MaxExamRows : t[i] = NULL}
SavedRows(cols) ==
  [id : 1..MaxSavedRows, examId : {NullId} \cup (1..MaxExamRows),
   content : IF cols.savedContent THEN SavedContents ELSE {NULL}]
SavedTables(cols) ==
  {t \in SUBSET SavedRows(cols) : \A r, s \in t : r.id = s.id => r = s}

Tables(cols, exam, saved) == [cols |-> cols, exam |-> exam, saved |-> saved]
NoTables ==
  Tables([examContent |-> FALSE, savedContent |-> FALSE,
          savedIdInteger |-> FALSE, examIdNotNull |-> FALSE,
          approvedAt |-> FALSE],
         [i \in 1..MaxExamRows |-> NULL], {})

\* The migration is not running.
MigrationIdle ==
  /\ db = [cur |-> NoTables, start |-> NoTables]
  /\ mig = "idle"

\* the frame of the statements
MigrationFrame ==
  UNCHANGED <<exams, questions, last, inp, qsVars, hdr, wzVars, ccVars,
              pgVars>>

\* CREATE EXTENSION IF NOT EXISTS "pgcrypto"
createExtension ==
  /\ mig = "create_extension"
  /\ mig' = "add_content"
  /\ UNCHANGED db
  /\ MigrationFrame

\* 1) ALTER TABLE "Exam" ADD COLUMN IF NOT EXISTS "content" JSONB
addExamContent ==
  /\ mig = "add_content"
  /\ db' = [db EXCEPT !.cur.cols.examContent = TRUE]
  /\ mig' = "backfill"
  /\ MigrationFrame

\* the rows of SavedExam the UPDATE joins to the exam e
Joined(t, e) == {r \in t.saved : r.examId = e /\ r.content # NULL}

\* UPDATE "Exam" e SET "content" = se."content" FROM "SavedExam" se WHERE ...
\* An exam joined to several rows is updated from one of them, as the first
\* row the join produces
UpdateFrom(t) ==
  {exam \in [DOMAIN t.exam -> SavedContents \cup ExamContents] :
     \A e \in DOMAIN t.exam :
       IF Joined(t, e) = {} THEN exam[e] = t.exam[e]
       ELSE exam[e] \in {r.content : r \in Joined(t, e)}}

\* 2) the backfill, run when SavedExam.content exists
backfill ==
  /\ mig = "backfill"
  /\ IF db.cur.cols.savedContent
     THEN \E exam \in UpdateFrom(db.cur) : db' = [db EXCEPT !.cur.exam = exam]
     ELSE UNCHANGED db
  /\ mig' = "uuid"
  /\ MigrationFrame

\* gen_random_uuid() for the row of integer id i
Uuid(i) == 100 + i

\* 3) SavedExam.id moved from integer to UUID
savedIdToUuid ==
  /\ mig = "uuid"
  /\ IF db.cur.cols.savedIdInteger
     THEN db' = [db EXCEPT
                   !.cur.cols.savedIdInteger = FALSE,
                   !.cur.saved = {[r EXCEPT !.id = Uuid(r.id)] : r \in @}]
     ELSE UNCHANGED db
  /\ mig' = "count_missing"
  /\ MigrationFrame

\* 4) the DO block that counts the rows with a NULL examId: RAISE NOTICE only
countMissing ==
  /\ mig = "count_missing"
  /\ mig' = "not_null"
  /\ UNCHANGED db
  /\ MigrationFrame

\* ALTER TABLE "SavedExam" ALTER COLUMN "examId" SET NOT NULL: fails when a
\* row holds NULL.  The statements run before it are rolled back when the
\* script runs in one transaction and are kept when it does not.
setNotNull ==
  /\ mig = "not_null"
  /\ IF \E r \in db.cur.saved : r.examId = NullId
     THEN /\ mig' = "aborted"
          /\ \/ UNCHANGED db
             \/ db' = [db EXCEPT !.cur = db.start]
     ELSE /\ mig' = "drop_content"
          /\ db' = [db EXCEPT !.cur.cols.examIdNotNull = TRUE]
  /\ MigrationFrame

\* 5) SavedExam.content dropped when it exists
dropSavedContent ==
  /\ mig = "drop_content"
  /\ IF db.cur.cols.savedContent
     THEN db' = [db EXCEPT
                   !.cur.cols.savedContent = FALSE,
                   !.cur.saved = {[r EXCEPT !.content = NULL] : r \in @}]
     ELSE UNCHANGED db
  /\ mig' = "drop_approvedAt"
  /\ MigrationFrame

\* 6) Exam.approvedAt dropped when it exists
dropApprovedAt ==
  /\ mig = "drop_approvedAt"
  /\ db' = [db EXCEPT !.cur.cols.approvedAt = FALSE]
  /\ mig' = "done"
  /\ MigrationFrame

(* --------------------------- specifications --------------------------- *)
NoInput == [dto |-> [totalQuestions |-> 0], flat |-> << >>]

\* No course, no saved exam and no quick-save request.
QuickSaveIdle ==
  /\ courses = {}
  /\ savedExams = {}
  /\ body = << >>
  /\ hdr = NoHeader

\* The store is empty when the service starts.
Init ==
  /\ exams = {}
  /\ questions = {}
  /\ last = Blank
  /\ inp = NoInput
  /\ QuickSaveIdle
  /\ WizardIdle
  /\ RaceIdle
  /\ PageIdle
  /\ MigrationIdle

\* The ownership-scoped queries over every store the repository can hold.
NextQueries ==
  \/ repoCreate
  \/ getExamById
  \/ byCourse

SpecQueries == Init /\ [][NextQueries]_vars

RECURSIVE StoreOf(_)
\* the store after n exams were created, by the two teachers in turn
StoreOf(n) ==
  IF n = 0 THEN {}
  ELSE LET es == StoreOf(n - 1)
           t == IF n % 2 = 1 THEN "tA" ELSE "tB"
       IN es \cup {repoCreateExam(es, t, "c1")}

\* The question writes, on a store that holds exams of both teachers.
InitQuestions ==
  /\ exams = StoreOf(MaxExams)
  /\ questions = {}
  /\ last = Blank
  /\ inp = NoInput
  /\ QuickSaveIdle
  /\ WizardIdle
  /\ RaceIdle
  /\ PageIdle
  /\ MigrationIdle

NextQuestions ==
  \/ addQuestion
  \/ updateQuestion

SpecQuestions == InitQuestions /\ [][NextQuestions]_vars

\* create-exam and generate-questions over every request body and every
\* answer of the generation collaborator.
InitValidation ==
  /\ exams = {}
  /\ questions = {}
  /\ last = Blank
  /\ inp \in [dto : Dtos, flat : Flats]
  /\ QuickSaveIdle
  /\ WizardIdle
  /\ RaceIdle
  /\ PageIdle
  /\ MigrationIdle

NextValidation ==
  \/ create
  \/ generate

SpecValidation == InitValidation /\ [][NextValidation]_vars

(* ------------------------------ properties ---------------------------- *)
RECURSIVE SumOver(_, _)
\* the sum of the counts a distribution defines, kind by kind
SumOver(d, S) ==
  IF S = {} THEN 0
  ELSE LET k == CHOOSE x \in S : TRUE IN d[k] + SumOver(d, S \ {k})

HasDistribution(dto) == "distribution" \in DOMAIN dto
SumMismatch(dto) ==
  /\ HasDistribution(dto)
  /\ SumOver(dto.distribution, DOMAIN dto.distribution) # dto.totalQuestions

\* C1: a create-exam or generate-questions request whose distribution counts
\* do not sum to totalQuestions is answered 400, calls neither the
\* create-exam handler nor the generate-questions handler, and stores nothing.
C1_SumMismatchRejected ==
  [][(last'.op \in {"create", "generate"} /\ SumMismatch(last'.dto))
       => /\ last'.status = 400
          /\ last'.calls = {}
          /\ exams' = exams]_vars

\* C1 witness: a generate request with a positive total and a distribution
\* that sums to something else has been rejected for the mismatch.
C1_Witness ==
  /\ last.op = "generate"
  /\ last.dto.totalQuestions > 0
  /\ SumMismatch(last.dto)
  /\ last.status = 400
  /\ last.error = SUM_MSG

\* C2: a create-exam or generate-questions request with totalQuestions <= 0
\* is answered 400 and calls no handler, with or without a distribution and
\* whether or not the distribution sums to totalQuestions.
C2_NonPositiveTotalRejected ==
  [][(last'.op \in {"create", "generate"} /\ last'.dto.totalQuestions <= 0)
       => /\ last'.status = 400
          /\ last'.calls = {}
          /\ exams' = exams]_vars

\* C2 witness: a create request with total 0 and a distribution that sums to
\* 0 as well has been rejected.
C2_Witness ==
  /\ last.op = "create"
  /\ last.dto.totalQuestions = 0
  /\ HasDistribution(last.dto)
  /\ ~ SumMismatch(last.dto)
  /\ last.status = 400

\* C3 (as claimed): a create-exam request with totalQuestions > 0 and no
\* distribution passes validation and reaches the create-exam handler.
C3_NoDistributionAccepted ==
  (last.op = "create" /\ ~ HasDistribution(last.dto)
     /\ last.dto.totalQuestions > 0)
    => (last.status = 200 /\ "createExamHandler" \in last.calls)

\* C4 (as claimed): an add-question or update-question request of a teacher
\* who does not own the target exam leaves that exam's questions as they were.
C4_NonOwnerNeverWrites ==
  [][\A e \in exams :
       (/\ last'.op \in {"addQuestion", "updateQuestion"}
        /\ last'.examId = e.id
        /\ last'.user \in Teachers
        /\ last'.user # e.teacherId)
         => QuestionsOf(questions', e.id) = QuestionsOf(questions, e.id)]_vars

OwnedByOther(examId, user) ==
  \E e \in exams : e.id = examId /\ e.teacherId # user

C6_AbsentNotFound ==
  (last.op = "getExamById" /\ last.user \in Teachers
     /\ ~ \E e \in exams : e.id = last.examId)
    => (last.status = 404 /\ last.error = NOEXAM /\ last.status # 403
        /\ last.dataExams = {})

\* C6 witness: a teacher has asked for an id beyond those of the stored
\* exams while the store holds another teacher's exam.
C6_Witness ==
  /\ last.op = "getExamById"
  /\ last.user \in Teachers
  /\ exams # {}
  /\ \A e \in exams : e.id # last.examId /\ e.teacherId # last.user
  /\ last.status = 404

\* C7: without a caller identity get-exam-by-id and list-exams-by-course
\* answer 403, execute no use case and return no exam data.
C7_NoIdentityForbidden ==
  (last.op \in {"getExamById", "byCourse"} /\ NoIdentity(last.user))
    => (last.status = 403 /\ last.calls = {} /\ last.dataExams = {})

\* C7 witness: a request without identity has asked for an exam that exists.
C7_Witness ==
  /\ last.op = "getExamById"
  /\ last.user = NoUser
  /\ \E e \in exams : e.id = last.examId
  /\ last.status = 403

\* C8: list-exams-by-course for teacher T and course C returns only stored
\* exams whose owner is T and whose course is C.
C8_ListOnlyOwned ==
  (last.op = "byCourse" /\ last.status = 200)
    => \A e \in last.dataExams :
         /\ e \in exams
         /\ e.teacherId = last.user
         /\ e.classId = last.courseId

\* C8 witness: the list holds an exam while another teacher has an exam in
\* the same course.
C8_Witness ==
  /\ last.op = "byCourse"
  /\ last.status = 200
  /\ last.dataExams # {}
  /\ \E e \in exams : e.classId = last.courseId /\ e.teacherId # last.user

\* C9: add-question at position P on an exam with N questions leaves the
\* exam with N+1 questions whose orders are exactly 0..N, and the returned
\* new question has order P; so after any sequence of add-question requests.
C9_AddKeepsOrderContiguous ==
  [][(last'.op = "addQuestion" /\ last'.status = 200)
       => LET before == QuestionsOf(questions, last'.examId)
              after == QuestionsOf(questions', last'.examId)
              N == Cardinality(before)
          IN /\ Cardinality(after) = N + 1
             /\ {q.order : q \in after} = 0..N
             /\ \E c \in last'.created :
                  /\ c \in after
                  /\ c.id \notin {q.id : q \in before}
                  /\ c.order = last'.position]_vars

\* C9 witness: a question has been inserted between two others.
C9_Witness ==
  /\ last.op = "addQuestion"
  /\ last.status = 200
  /\ last.position = 1
  /\ Cardinality(QuestionsOf(questions, last.examId)) = 3

Ids(s) == {s[i].id : i \in 1..Len(s)}

\* C10: generate-questions returns four buckets; each bucket holds exactly
\* the questions of the collaborator's sequence that have the bucket's kind,
\* in their relative order, and a question of one of the four kinds is in
\* exactly one bucket.
C10_GroupedByKind ==
  (last.op = "generate" /\ last.status = 200)
    => LET flat == last.flat
           g == last.grouped
       IN /\ DOMAIN g = Kinds
          /\ \A k \in Kinds :
               /\ \A i \in 1..Len(g[k]) : g[k][i].type = k
               /\ Ids(g[k]) = {flat[j].id : j \in {x \in 1..Len(flat) : flat[x].type = k}}
               /\ \A i, j \in 1..Len(g[k]) : i < j => g[k][i].id < g[k][j].id
          /\ \A j \in 1..Len(flat) :
               flat[j].type \in Kinds
                 => Cardinality({k \in Kinds :
                       \E i \in 1..Len(g[k]) : g[k][i] = flat[j]}) = 1

\* C10 witness: the collaborator answered with two questions of one kind
\* around a question of another kind.
C10_Witness ==
  /\ last.op = "generate"
  /\ last.status = 200
  /\ Len(last.flat) = 3
  /\ last.flat[1].type = "open_exercise"
  /\ last.flat[2].type = "true_false"
  /\ last.flat[3].type = "open_exercise"
  /\ Len(last.grouped["open_exercise"]) = 2

\* C11: generate-questions never writes to the exam store: accepted or
\* rejected, the stored exams and questions are after the request what they
\* were before it.
C11_GenerateWritesNothing ==
  [][last'.op = "generate" => (exams' = exams /\ questions' = questions)]_vars

\* C11 witness: a generate request has been accepted while the store holds
\* an exam.
C11_Witness ==
  /\ last.op = "generate"
  /\ last.status = 200
  /\ last.flat # << >>
  /\ exams # {}

\* Quick-save over every body and every Course table.
InitQuickSave ==
  /\ exams = {}
  /\ questions = {}
  /\ last = Blank
  /\ inp = NoInput
  /\ savedExams = {}
  /\ hdr = NoHeader
  /\ WizardIdle
  /\ RaceIdle
  /\ PageIdle
  /\ MigrationIdle
  /\ courses \in CourseTables
  /\ body \in Bodies

NextQuickSave ==
  \/ quickSave

SpecQuickSave == InitQuickSave /\ [][NextQuickSave]_vars

\* Quick-save over every list of incoming questions, sent in body.questions
\* or in body.content.questions, for an existing course.
InitNormalize ==
  /\ exams = {}
  /\ questions = {}
  /\ last = Blank
  /\ inp = NoInput
  /\ savedExams = {}
  /\ hdr = NoHeader
  /\ WizardIdle
  /\ RaceIdle
  /\ PageIdle
  /\ MigrationIdle
  /\ courses = {[id |-> "c2", teacherId |-> "tB", createdAt |-> 2]}
  /\ body \in {[courseId |-> "c2", questions |-> r] : r \in RawLists}
              \cup {[courseId |-> "c2", content |-> [questions |-> r]] :
                      r \in RawLists}

NextNormalize ==
  \/ quickSave

SpecNormalize == InitNormalize /\ [][NextNormalize]_vars

(* ------------------------ properties of quick-save --------------------- *)
SavedRow == CHOOSE r \in last.created : TRUE
Saved == last.op = "quickSave" /\ last.status = 200
NoCourseId == "courseId" \notin DOMAIN body \/ body.courseId = ""
NoTeacherId == "teacherId" \notin DOMAIN body \/ body.teacherId = ""
Earliest(c) == c \in courses /\ \A d \in courses : c.createdAt <= d.createdAt

C13_BorrowedWheneverAbsent ==
  Saved =>
    /\ (NoCourseId /\ courses # {})
         => \E c \in courses :
              /\ Earliest(c)
              /\ SavedRow.courseId = c.id
              /\ "teacherId" \in DOMAIN SavedRow
              /\ SavedRow.teacherId =
                   (IF NoTeacherId THEN c.teacherId ELSE body.teacherId)
    /\ NoTeacherId => "teacherId" \in DOMAIN SavedRow

\* C13 (amended): without a courseId and with a course in the table the exam
\* is saved under a course of earliest creation time, with the body's
\* teacherId when supplied, and otherwise with that course's teacher when it
\* has one; with a courseId in the body the exam is saved under it and has a
\* teacherId only when the body has one: none is borrowed.
C13_BorrowedOnlyWithFallback ==
  Saved =>
    /\ (NoCourseId /\ courses # {})
         => \E c \in courses :
              /\ Earliest(c)
              /\ SavedRow.courseId = c.id
              /\ IF ~ NoTeacherId
                 THEN "teacherId" \in DOMAIN SavedRow
                      /\ SavedRow.teacherId = body.teacherId
                 ELSE IF c.teacherId # NoTeacher
                      THEN "teacherId" \in DOMAIN SavedRow
                           /\ SavedRow.teacherId = c.teacherId
                      ELSE "teacherId" \notin DOMAIN SavedRow
    /\ ~ NoCourseId
         => /\ SavedRow.courseId = body.courseId
            /\ IF NoTeacherId THEN "teacherId" \notin DOMAIN SavedRow
               ELSE "teacherId" \in DOMAIN SavedRow
                    /\ SavedRow.teacherId = body.teacherId

\* C13 witness: with two courses created at different times and neither
\* course nor teacher in the body, the exam went to the earlier course and
\* took its teacher.
C13_Witness ==
  /\ Saved
  /\ "courseId" \notin DOMAIN body
  /\ "teacherId" \notin DOMAIN body
  /\ Cardinality(courses) = 2
  /\ \E c, d \in courses : c.createdAt < d.createdAt /\ c.id = "c2"
  /\ SavedRow.courseId = "c2"
  /\ SavedRow.teacherId = "tB"

IsPrefix(p, s) == Len(p) <= Len(s) /\ SubSeq(s, 1, Len(p)) = p

\* C14: whatever ids are missing, supplied or duplicated and whatever
\* suffixes are drawn, the normalized questions have pairwise distinct ids
\* and are as many as the incoming ones, in the same order.
C14_NormalizedIdsDistinct ==
  Saved =>
    LET raw == rawQuestions(body)
        n == last.normalized
    IN /\ Len(n) = Len(raw)
       /\ \A i, j \in 1..Len(n) : i # j => n[i].id # n[j].id
       /\ \A i \in 1..Len(n) :
            /\ n[i].type = (IF "type" \in DOMAIN raw[i] THEN raw[i].type
                            ELSE "open_analysis")
            /\ IF "id" \in DOMAIN raw[i]
               THEN IsPrefix(StringOfId(raw[i].id), n[i].id)
               ELSE IsPrefix(<<"q", "ts">>, n[i].id)

\* C14 witness: three incoming questions, the id of the last one taken by
\* the first and its first suffixed form taken by the second.
C14_Witness ==
  /\ Saved
  /\ Len(last.normalized) = 3
  /\ last.normalized[1].id = <<"1">>
  /\ last.normalized[2].id = <<"1", "0">>
  /\ Len(rawQuestions(body)) = 3
  /\ "id" \in DOMAIN rawQuestions(body)[3]
  /\ "num" \in DOMAIN rawQuestions(body)[3].id
  /\ Len(last.normalized[3].id) = 3

\* C15 (as claimed): every exam quick-save persists has status 'Guardado'
\* and a content with subject, difficulty, creation timestamp and the
\* normalized question list, also when the body carries its own content.
C15_ContentHoldsNormalized ==
  Saved =>
    /\ SavedRow.status = "Guardado"
    /\ {"subject", "difficulty", "createdAt", "questions"}
         \subseteq DOMAIN SavedRow.content
    /\ SavedRow.content.questions = last.normalized

(* ------------------- the envelope of every endpoint -------------------- *)
\* Requests with and without the x-correlation-id header to all endpoints,
\* over a store with one exam and an empty Course table.
InitEnvelope ==
  /\ exams = StoreOf(1)
  /\ questions = {}
  /\ last = Blank
  /\ inp \in [dto : {d \in Dtos : /\ d.totalQuestions = 1
                                  /\ "distribution" \in DOMAIN d
                                  /\ DOMAIN d.distribution = {"true_false"}},
              flat : {<<[id |-> 1, type |-> "true_false"]>>}]
  /\ courses = {}
  /\ savedExams = {}
  /\ body \in {<< >>, [courseId |-> "c2"]}
  /\ hdr \in Headers
  /\ WizardIdle
  /\ RaceIdle
  /\ PageIdle
  /\ MigrationIdle

\* Every endpoint is called any number of times; each store takes one more
\* row and is then left as it is.
NextEnvelope ==
  \/ (exams = StoreOf(1) /\ create)
  \/ generate
  \/ (questions = {} /\ addQuestion)
  \/ updateQuestion
  \/ getExamById
  \/ byCourse
  \/ (savedExams = {} /\ quickSave)

SpecEnvelope == InitEnvelope /\ [][NextEnvelope]_vars

Endpoints ==
  {"create", "generate", "addQuestion", "updateQuestion", "getExamById",
   "byCourse", "quickSave"}

\* C16 (as claimed): the response to every request to one of the seven
\* endpoints, also when the handler behind it threw, is an envelope with a
\* correlation id, and that id is the x-correlation-id header of the request
\* when there is one.
C16_EveryResponseCarriesCid ==
  last.op \in Endpoints =>
    /\ last.cid # NoCid
    /\ last.header # NoHeader => last.cid = last.header

(* --------------------------- the wizard's runs -------------------------- *)
\* No request reaches the backend.
BackendIdle ==
  /\ exams = {}
  /\ questions = {}
  /\ last = Blank
  /\ inp = NoInput
  /\ QuickSaveIdle
  /\ RaceIdle
  /\ PageIdle
  /\ MigrationIdle

\* The form is mounted, with or without initial data.
InitWizard ==
  /\ BackendIdle
  /\ AttemptsIdle
  /\ step = 0
  /\ values \in {InitialValues(d) : d \in InitialDatas}
  /\ errors = [timeMinutes |-> ""]
  /\ sending = FALSE
  /\ inflight = 0
  /\ mounted = TRUE
  /\ wzLast = NoEvent

NextWizard ==
  \/ onChange
  \/ previous
  \/ next
  \/ onResetStep
  \/ onSubmit
  \/ createExamSettles
  \/ generateAI
  \/ unmount

SpecWizard == InitWizard /\ [][NextWizard]_vars

\* validateAttempts on every value of up to MaxAttemptLen characters.
InitAttempts ==
  /\ BackendIdle
  /\ att \in [value : AttemptInputs, msg : {NotValidated}]
  /\ step = 0
  /\ values = ClearedValues
  /\ errors = [timeMinutes |-> ""]
  /\ sending = FALSE
  /\ inflight = 0
  /\ mounted = FALSE
  /\ wzLast = NoEvent

NextAttempts ==
  \/ validateAttemptsCall

SpecAttempts == InitAttempts /\ [][NextAttempts]_vars

(* ------------------------ properties of the wizard --------------------- *)
\* C17: whatever the user does (Next, Previous, form submit, Clear, field
\* changes), the step is 0, 1 or 2 and every change of the step moves it to
\* the step before or the step after.
C17_StepInRangeAndAdjacent ==
  /\ [](step \in {0, 1, 2})
  /\ [][step' # step => (step' = step + 1 \/ step' = step - 1)]_vars

\* C17 witness: the form went forward to the question counts, a count was
\* typed, and Previous brought it back to step 0.
C17_Witness ==
  /\ mounted
  /\ step = 0
  /\ wzLast.op = "previous"
  /\ values.multipleChoice = "1"

\* C18 (as claimed): on every path, the Next button and the form submit,
\* the step advances only from a state in which validStep() holds for the
\* current step.
C18_AdvanceOnlyWhenValidStep ==
  [][step' = step + 1 => validStep(step, values, errors)]_vars

\* the value of Number(value) is one of the integers 1, 2, 3
IsInteger1to3(value) ==
  LET n == Number(value) IN
  /\ value # << >>
  /\ ~ n.nan
  /\ ~ n.neg
  /\ n.m % Pow10(n.k) = 0
  /\ (n.m \div Pow10(n.k)) \in {1, 2, 3}

\* why the claim has a value rejected
Reason(value) ==
  LET n == Number(value) IN
  IF value = << >> THEN "blank"
  ELSE IF n.nan THEN "non-numeric"
  ELSE IF LessThanOne(n) THEN "less than 1"
  ELSE IF MoreThanThree(n) THEN "greater than 3"
  ELSE "none"

\* C19 (as claimed): validateAttempts returns no error exactly for the
\* values that are the integers 1, 2 and 3, and values rejected for
\* different reasons (blank, non-numeric, less than 1, greater than 3) get
\* different messages.
C19_ExactlyIntegersDistinctMessages ==
  att.msg # NotValidated =>
    /\ att.msg = "" <=> IsInteger1to3(att.value)
    /\ \A other \in AttemptInputs :
         (/\ Reason(att.value) # "none"
          /\ Reason(other) # "none"
          /\ Reason(other) # Reason(att.value))
           => validateAttempts(other) # att.msg

Emptied(vals) ==
  /\ vals.subject = << >>
  /\ vals.difficulty = ""
  /\ vals.attempts = << >>
  /\ \A f \in CountFields : vals[f] = ""
  /\ vals.reference = ""

\* C20 (as claimed): after the form is unmounted, and after a createExam
\* call of the final step has succeeded, subject, difficulty, attempts, the
\* four question counts and reference are empty.
C20_ClearedOnLeaveAndComplete ==
  [][(\/ wzLast'.op = "unmount"
      \/ wzLast'.op = "createExamSettles" /\ wzLast'.outcome = "ok")
       => Emptied(values')]_vars

\* C21 (as claimed): createExam and onGenerateAI are called only from step 2
\* and only from a state in which validStep() holds for that step.
C21_CallsOnlyOnValidFinalStep ==
  [][wzLast'.calls # {} => (step = 2 /\ validStep(step, values, errors))]_vars

(* ------------------------ the queries when they throw ------------------ *)
\* Every caller, with and without a correlation header, and every error the
\* two use cases can throw.
NextThrows ==
  \/ getExamByIdThrows
  \/ byCourseThrows

InitThrows ==
  /\ exams = {}
  /\ questions = {}
  /\ last = Blank
  /\ inp = NoInput
  /\ courses = {}
  /\ savedExams = {}
  /\ body = << >>
  /\ hdr \in Headers
  /\ WizardIdle
  /\ RaceIdle
  /\ PageIdle
  /\ MigrationIdle

SpecThrows == InitThrows /\ [][NextThrows]_vars

ThrownMessage ==
  LET e == CHOOSE x \in last.thrown : TRUE IN
  IF "message" \in DOMAIN e THEN e.message ELSE {}

\* C22: when the use case of get-exam-by-id throws, a message containing
\* 'Acceso no autorizado' is answered 403, also when it contains 'Examen no
\* encontrado' as well; otherwise a message containing 'Examen no
\* encontrado' is answered 404; every other error is answered 500 with its
\* message as detail (a fixed text when it has none).  Whatever the use case
\* of list-exams-by-course throws is answered 500.
C22_ThrownMessageClassified ==
  last.thrown # {} =>
    /\ last.op = "getExamById" =>
         IF ACCESO \in ThrownMessage
         THEN last.status = 403 /\ last.error = ACCESO
         ELSE IF NOEXAM \in ThrownMessage
         THEN last.status = 404 /\ last.error = NOEXAM
         ELSE /\ last.status = 500
              /\ last.detail = (IF ThrownMessage # {} THEN ThrownMessage
                                ELSE {DEFAULT_GET})
    /\ last.op = "byCourse" => last.status = 500

\* C22 witness: an error whose message contains both phrases was answered
\* 403.
C22_Witness ==
  /\ last.op = "getExamById"
  /\ last.thrown = {[message |-> {ACCESO, NOEXAM}]}
  /\ last.status = 403

(* ------------------- add-question requests that overlap ---------------- *)
\* Add-question requests on a store with one exam, served with no order
\* between the reads and the writes of their handlers.
InitRace ==
  /\ exams = StoreOf(1)
  /\ questions = {}
  /\ last = Blank
  /\ inp = NoInput
  /\ QuickSaveIdle
  /\ WizardIdle
  /\ RaceIdle
  /\ PageIdle
  /\ MigrationIdle

NextRace ==
  \/ addQuestionReads
  \/ addQuestionWrites

SpecRace == InitRace /\ [][NextRace]_vars

\* two served requests neither of which had read the other's question
Overlapped(a, b) ==
  /\ a # b
  /\ a.cmd.examId = b.cmd.examId
  /\ a.new \notin b.seen
  /\ b.new \notin a.seen

ContiguousUnique(qs) ==
  /\ \A q, r \in qs : q.order = r.order => q = r
  /\ {q.order : q \in qs} = 0..(Cardinality(qs) - 1)

InitPage ==
  /\ exams = {}
  /\ questions = {}
  /\ last = Blank
  /\ inp = NoInput
  /\ QuickSaveIdle
  /\ WizardIdle
  /\ RaceIdle
  /\ MigrationIdle
  /\ page = InitialPage
  /\ form \in [values : SnapshotValues, draft : Drafts]
  /\ aiCalls = {}
  /\ issued = 0
  /\ now = 0
  /\ pgLast = NoPageEvent

\* the handlers that call generateQuestions, and the calls settling
NextPage ==
  \/ handleAIPropose
  \/ onRegenerateAll
  \/ onRegenerateOne
  \/ generationSettles

SpecPage == InitPage /\ [][NextPage]_vars

\* C24: a generation call that rejects leaves its message in aiError and
\* nothing propagates out of the handler; and when no generation call is in
\* flight aiLoading is false.
RejectionMessage(kind) ==
  CASE kind = "propose" -> ERR_PROPOSE
    [] kind = "all" -> ERR_ALL
    [] kind = "one" -> ERR_ONE

C24_RejectionsCaptured ==
  /\ aiCalls = {} => ~ page.aiLoading
  /\ pgLast.outcome = "rejected"
       => /\ page.aiError = RejectionMessage(pgLast.call.kind)
          /\ ~ pgLast.propagated

\* C24 witness: a propose and a regenerate-all were in flight together, the
\* last of them to settle was rejected, and the page shows its message and
\* is not loading.
C24_Witness ==
  /\ issued = 2
  /\ aiCalls = {}
  /\ pgLast.outcome = "rejected"
  /\ pgLast.call.kind = "propose"
  /\ page.aiError = ERR_PROPOSE
  /\ ~ page.aiLoading

\* C26 (as claimed): every request the page hands to generateQuestions, from
\* handleAIPropose, onRegenerateAll or onRegenerateOne and whatever the form
\* holds, passes the validation of the generate endpoint: totalQuestions is
\* positive and the four counts of the distribution sum to it.
C26_SentRequestsPassValidation ==
  \A dto \in pgLast.sent : generateCheck(dto) = ""

FullList(call) == call.kind \in {"propose", "all"}

\* C27: a call in flight is never cancelled.  When a propose or regenerate-all
\* call resolves, the list shown is the list of its answer, whether or not a
\* later call was issued in the meantime, so after two overlapping calls the
\* answer that resolved last is shown; and when such a call settles aiLoading
\* is false, whatever other calls are still in flight.
C27_LastResolvedWins ==
  (pgLast.op = "generationSettles" /\ FullList(pgLast.call))
    => /\ ~ page.aiLoading
       /\ pgLast.outcome = "resolved" => page.aiQuestions = pgLast.list

\* C27 witness: a propose and a later regenerate-all overlapped; the answer
\* to the propose, issued first, resolved last and its questions are shown.
C27_Witness ==
  /\ issued = 2
  /\ aiCalls = {}
  /\ pgLast.op = "generationSettles"
  /\ pgLast.outcome = "resolved"
  /\ pgLast.call.kind = "propose"
  /\ pgLast.call.n = 1
  /\ Len(page.aiQuestions) = 2
  /\ \A i \in 1..2 : page.aiQuestions[i].text = Mark(1)
  /\ ~ page.aiLoading

(* ------------------- the exam-create page, the list -------------------- *)
\* The page is shown over a form with one multiple-choice question asked
\* for; every operation on the list of questions may follow.
InitPageList ==
  /\ exams = {}
  /\ questions = {}
  /\ last = Blank
  /\ inp = NoInput
  /\ QuickSaveIdle
  /\ WizardIdle
  /\ RaceIdle
  /\ MigrationIdle
  /\ page = InitialPage
  /\ form = [values |-> [subject |-> "a", difficulty |-> "dificil",
                         multipleChoice |-> <<"1">>, trueFalse |-> << >>,
                         analysis |-> << >>, openEnded |-> << >>],
             draft |-> NoDraft]
  /\ aiCalls = {}
  /\ issued = 0
  /\ now = 0
  /\ pgLast = NoPageEvent

NextPageList ==
  \/ handleAIPropose
  \/ onRegenerateAll
  \/ onRegenerateOne
  \/ generationSettles
  \/ onChangeQuestion
  \/ onReorderQuestion
  \/ onAddManual
  \/ tick

SpecPageList == InitPageList /\ [][NextPageList]_vars

DistinctIds(list) ==
  \A i, j \in 1..Len(list) : list[i].id = list[j].id => i = j

\* C28 (as claimed): whatever operations were made on the list (generate,
\* regenerate-all, regenerate-one, manual add, reorder, edit), no two of its
\* questions have the same id; and when a regenerate-one call resolves, the
\* list keeps its length and the question regenerated keeps its id and its
\* include flag.
C28_IdsDistinctAndKept ==
  [][/\ DistinctIds(page'.aiQuestions)
     /\ (pgLast'.op = "generationSettles" /\ pgLast'.call.kind = "one")
          => /\ Len(page'.aiQuestions) = Len(page.aiQuestions)
             /\ \A i \in 1..Len(page.aiQuestions) :
                  /\ page'.aiQuestions[i].id = page.aiQuestions[i].id
                  /\ page'.aiQuestions[i].include
                       = page.aiQuestions[i].include]_vars

(* ------------------------ the migration, specification ----------------- *)
\* The migration starts on tables of the schema before it.
InitMigration ==
  /\ exams = {}
  /\ questions = {}
  /\ last = Blank
  /\ inp = NoInput
  /\ QuickSaveIdle
  /\ WizardIdle
  /\ RaceIdle
  /\ PageIdle
  /\ \E cols \in Columns :
       \E exam \in ExamTables(cols), saved \in SavedTables(cols) :
         db = [cur |-> Tables(cols, exam, saved),
               start |-> Tables(cols, exam, saved)]
  /\ mig = "create_extension"

NextMigration ==
  \/ createExtension
  \/ addExamContent
  \/ backfill
  \/ savedIdToUuid
  \/ countMissing
  \/ setNotNull
  \/ dropSavedContent
  \/ dropApprovedAt

SpecMigration == InitMigration /\ [][NextMigration]_vars

\* the rows that held a content and were linked to an exam before the
\* migration
LinkedContent ==
  {r \in db.start.saved : r.content # NULL /\ r.examId \in DOMAIN db.start.exam}

\* C25 (as claimed): when the migration has completed, the content of every
\* SavedExam row that had one and was linked to an exam is the content of
\* that exam; and when some SavedExam row has a NULL examId the migration
\* aborts at the NOT NULL statement, SavedExam.content not yet dropped.
C25_NoContentLost ==
  /\ mig = "done"
       => \A r \in LinkedContent : db.cur.exam[r.examId] = r.content
  /\ (\E r \in db.start.saved : r.examId = NullId)
       => /\ mig \notin {"drop_content", "drop_approvedAt", "done"}
          /\ db.cur.cols.savedContent = db.start.cols.savedContent
          /\ \A r \in db.start.saved :
               \E s \in db.cur.saved : s.content = r.content
                                       /\ s.examId = r.examId

====
